---- MODULE Spec2Model ----
(***************************************************************************)
(* dictionaryGenerator.py: extractWords, generateDictionary and            *)
(* generateCombinatory as a state machine over the output file.            *)
(*                                                                         *)
(* A character is a one-character string; the double quote, the backslash, *)
(* the grave accent and every character outside printable ASCII are        *)
(* written by their code points (U+0022, U+005C, U+0060; U+00DF is LATIN    *)
(* SMALL LETTER SHARP S).  A Python str is the sequence of its characters.  *)
(***************************************************************************)
EXTENDS Integers, Sequences, FiniteSets, TLC

VARIABLES
    op,          \* the operation invoked last ("none" before the first)
    args,        \* its arguments
    blacklist,   \* extractWords: the local set blacklist
    words,       \* the value of the local word for each line read
    chunks,      \* what each line read added to the result list
    generated,   \* filtered_words / generated_words when the loop ended
    out,         \* the output file: the payloads appended to it
    message,     \* what the operation printed
    runs         \* invocations so far

vars == <<op, args, blacklist, words, chunks, generated, out, message, runs>>

\* ------------------------------------------------------------- bounds
MaxRuns == 3
MaxLines == 2
MaxLen == 3
MaxEmit == 100
MaxN == 8

\* ---------------------------------------------------- character tables
LF == "\n"

Lowercase ==
    <<"a", "b", "c", "d", "e", "f", "g", "h", "i", "j", "k", "l", "m", "n", "o", "p", "q", "r", "s", "t", "u", "v", "w", "x", "y", "z">>

Uppercase ==
    <<"A", "B", "C", "D", "E", "F", "G", "H", "I", "J", "K", "L", "M", "N", "O", "P", "Q", "R", "S", "T", "U", "V", "W", "X", "Y", "Z">>

Digits ==
    <<"0", "1", "2", "3", "4", "5", "6", "7", "8", "9">>

HexLower ==
    <<"0", "1", "2", "3", "4", "5", "6", "7", "8", "9", "a", "b", "c", "d", "e", "f">>

HexUpper ==
    <<"0", "1", "2", "3", "4", "5", "6", "7", "8", "9", "A", "B", "C", "D", "E", "F">>

\* The literal of the special characters is a raw string: a backslash in
\* it stays, so the escaped quote is two characters (backslash, quote) and
\* the escaped backslash is two backslashes.
Special ==
    <<"!", "U+0022", "#", "$", "%", "&", "U+005C", "'", "(", ")", "*", "+", ",", "-", ".", "/", ":", ";", "<", "=", ">", "?", "@", "[", "U+005C", "U+005C", "]", "^", "_", "U+0060", "{", "|", "}", "~">>

\* The literal of the code ?a is not raw: its escapes are one character each.
AllPrintable ==
    <<"a", "b", "c", "d", "e", "f", "g", "h", "i", "j", "k", "l", "m", "n", "o", "p", "q", "r", "s", "t", "u", "v", "w", "x", "y", "z", "A", "B", "C", "D", "E", "F", "G", "H", "I", "J", "K", "L", "M", "N", "O", "P", "Q", "R", "S", "T", "U", "V", "W", "X", "Y", "Z", "0", "1", "2", "3", "4", "5", "6", "7", "8", "9", "!", "U+0022", "#", "$", "%", "&", "'", "(", ")", "*", "+", ",", "-", ".", "/", ":", ";", "<", "=", ">", "?", "@", "[", "U+005C", "]", "^", "_", "U+0060", "{", "|", "}", "~">>

\* The accent literal as the interpreter reads the source file.
Accents ==
    <<"U+00C3", "U+00A1", "U+00C3", "U+00A9", "U+00C3", "U+00AD", "U+00C3", "U+00B3", "U+00C3", "U+00BA", "U+00C3", "U+0081", "U+00C3", "U+0089", "U+00C3", "U+008D", "U+00C3", "U+0093", "U+00C3", "U+009A", "U+00C3", "U+00B1", "U+00C3", "U+0091", "U+00C3", "U+00BC", "U+00C3", "U+009C">>

\* -------------------------------------------------------- str helpers
Range(s) == {s[i] : i \in DOMAIN s}

\* str.strip() with no argument removes these from both ends.
Whitespace ==
    {"\t", "\n", "U+000B", "U+000C", "\r", "U+001C", "U+001D", "U+001E", "U+001F", " ", "U+0085", "U+00A0"}

RECURSIVE lstrip(_)
lstrip(s) ==
    IF s # <<>> /\ Head(s) \in Whitespace THEN lstrip(Tail(s)) ELSE s

RECURSIVE rstrip(_)
rstrip(s) ==
    IF s # <<>> /\ s[Len(s)] \in Whitespace
    THEN rstrip(SubSeq(s, 1, Len(s) - 1))
    ELSE s

strip(s) == rstrip(lstrip(s))

\* sep.join(ws)
RECURSIVE join(_, _)
join(sep, ws) ==
    IF ws = <<>> THEN <<>>
    ELSE IF Len(ws) = 1 THEN ws[1]
    ELSE LET h == Len(ws) \div 2
         IN join(sep, SubSeq(ws, 1, h)) \o sep \o join(sep, SubSeq(ws, h + 1, Len(ws)))

\* text.split(sep) for a one-character sep: the pieces between its
\* occurrences.
RECURSIVE split(_, _)
split(text, sep) ==
    IF text = <<>> THEN <<<<>>>>
    ELSE IF Len(text) = 1
    THEN (IF text[1] = sep THEN <<<<>>, <<>>>> ELSE <<text>>)
    ELSE LET h == Len(text) \div 2
             a == split(SubSeq(text, 1, h), sep)
             b == split(SubSeq(text, h + 1, Len(text)), sep)
         IN SubSeq(a, 1, Len(a) - 1) \o <<a[Len(a)] \o b[1]>> \o Tail(b)

\* The lines of a text: each ends at a line feed; a last line may lack one.
TextLines(text) ==
    LET pieces == split(text, LF)
    IN IF pieces[Len(pieces)] = <<>>
       THEN SubSeq(pieces, 1, Len(pieces) - 1)
       ELSE pieces

RECURSIVE Flatten(_)
Flatten(ss) ==
    IF ss = <<>> THEN <<>>
    ELSE IF Len(ss) = 1 THEN ss[1]
    ELSE LET h == Len(ss) \div 2
         IN Flatten(SubSeq(ss, 1, h)) \o Flatten(SubSeq(ss, h + 1, Len(ss)))

RECURSIVE Pow(_, _)
Pow(b, e) == IF e = 0 THEN 1 ELSE b * Pow(b, e - 1)

\* ------------------------------------------------------ parse_charset
predefined_charsets ==
    (<<"?", "l">> :> Lowercase) @@ (<<"?", "u">> :> Uppercase) @@
    (<<"?", "d">> :> Digits) @@ (<<"?", "h">> :> HexLower) @@
    (<<"?", "H">> :> HexUpper) @@ (<<"?", "s">> :> Special) @@
    (<<"?", "a">> :> AllPrintable)

parse_charset(charset) ==
    IF charset \in DOMAIN predefined_charsets
    THEN predefined_charsets[charset]
    ELSE charset

\* ------------------------------------------------------- file system
\* A source path: what opening it for reading finds there and the lines reading
\* it yields (every line with its terminator, as the iteration gives it).
SourceFile(ls) == [state |-> "ok", lines |-> ls]
MissingFile == [state |-> "missing", lines |-> <<>>]
UnreadableFile == [state |-> "denied", lines |-> <<>>]

\* What open(path, mode) raises.
OpenSource(file) ==
    CASE file.state = "missing" -> "FileNotFoundError"
      [] file.state = "denied" -> "PermissionError"
      [] OTHER -> "ok"

\* output: "ok", "ENOENT" (no such directory), "EACCES" (not writable).
OpenOutput(output) ==
    CASE output = "ENOENT" -> "FileNotFoundError"
      [] output = "EACCES" -> "PermissionError"
      [] OTHER -> "ok"

\* Characters the latin-1 codec cannot encode.
NotLatin1 == {"U+0178", "U+039C"}

Encodable(text) == Range(text) \cap NotLatin1 = {}

\* The text of one write call, as the lines it adds to the file.  ordered
\* is FALSE when the text joins a Python set, whose iteration order is
\* unspecified: lines then holds one of the possible orders.
Payload(ordered, ws) ==
    [ordered |-> ordered, lines |-> TextLines(join(<<LF>>, ws) \o <<LF>>)]

\* Opening the output in write mode instead: the file is truncated.
AppendTo_truncating(file, payload) == <<payload>>

\* open(output) in append mode and write: the file keeps what it held.
AppendTo(file, payload) == Append(file, payload)

\* except FileNotFoundError / except Exception, and the final print.
FileNotFoundMessage == "file_not_found"
ErrorMessage == "error_occurred"
SavedMessage == "saved"

Handler(exc) ==
    IF exc = "FileNotFoundError" THEN FileNotFoundMessage ELSE ErrorMessage

\* The try block from the open of the output on: ws joined and appended.
SaveResults(output, ordered, ws) ==
    IF OpenOutput(output) # "ok"
    THEN /\ message' = Handler(OpenOutput(output))
         /\ out' = out
    ELSE IF ~Encodable(join(<<LF>>, ws))
    THEN /\ message' = Handler("UnicodeEncodeError")
         /\ out' = out
    ELSE /\ message' = SavedMessage
         /\ out' = AppendTo(out, Payload(ordered, ws))

\* ------------------------------------------------- generateDictionary
\* itertools.product(charset, repeat=k), in the order it yields.
\* The same tuples with the first position cycling fastest.
RECURSIVE product_first_fastest(_, _)
product_first_fastest(charset, k) ==
    IF k = 0 THEN <<<<>>>>
    ELSE LET rest == product_first_fastest(charset, k - 1)
         IN Flatten([i \in DOMAIN charset |->
                        [j \in DOMAIN rest |-> Append(rest[j], charset[i])]])

RECURSIVE product(_, _)
product(charset, k) ==
    IF k = 0 THEN <<<<>>>>
    ELSE LET rest == product(charset, k - 1)
         IN Flatten([i \in DOMAIN charset |->
                        [j \in DOMAIN rest |-> <<charset[i]>> \o rest[j]]])

\* The prepend flag ignored.
new_word_appending(word, padding, prepend) == word \o padding

new_word(word, padding, prepend) ==
    IF prepend THEN padding \o word ELSE word \o padding

\* One iteration of the loop over the lines: what it appends.
PadWord(word, max_length, charset, prepend) ==
    IF Len(word) = max_length THEN <<word>>
    ELSE IF Len(word) < max_length
    THEN LET paddings == product(charset, max_length - Len(word))
         IN [j \in DOMAIN paddings |-> new_word(word, paddings[j], prepend)]
    ELSE <<>>

generateDictionary(file, max_length, charset, output, prepend) ==
    LET cs == parse_charset(charset)
        ws == [i \in DOMAIN file.lines |-> strip(file.lines[i])]
        per == [i \in DOMAIN ws |-> PadWord(ws[i], max_length, cs, prepend)]
    IN /\ op' = "generateDictionary"
       /\ args' = [file |-> file, max_length |-> max_length,
                   charset |-> charset, output |-> output, prepend |-> prepend]
       /\ blacklist' = {}
       /\ runs' = runs + 1
       /\ IF OpenSource(file) # "ok"
          THEN /\ words' = <<>>
               /\ chunks' = <<>>
               /\ generated' = <<>>
               /\ message' = Handler(OpenSource(file))
               /\ out' = out
          ELSE /\ words' = ws
               /\ chunks' = per
               /\ generated' = Flatten(per)
               /\ SaveResults(output, TRUE, Flatten(per))

\* ------------------------------------------------------- extractWords
None == [some |-> FALSE, v |-> 0]
Some(n) == [some |-> TRUE, v |-> n]

predefined_blacklists ==
    (<<"?", "l">> :> Lowercase) @@ (<<"?", "u">> :> Uppercase) @@
    (<<"?", "d">> :> Digits) @@ (<<"?", "a">> :> Accents) @@
    (<<"?", "s">> :> Special)

\* One pass of the loop over conditions.split('?'): what blacklist.update
\* receives (nothing for an empty piece).
ConditionChars(condition) ==
    IF condition = <<>> THEN {}
    ELSE LET key == <<"?">> \o condition
         IN IF key \in DOMAIN predefined_blacklists
            THEN Range(predefined_blacklists[key])
            ELSE Range(condition)

BuildBlacklist(conditions) ==
    IF conditions = <<>> THEN {}
    ELSE LET pieces == split(conditions, "?")
         IN UNION {ConditionChars(pieces[i]) : i \in DOMAIN pieces}

\* The maximum taken as exclusive.
LengthExcluded_exclusive_max(word_length, max_length, exact_length, min_length) ==
    \/ (max_length.some /\ word_length >= max_length.v)
    \/ (exact_length.some /\ word_length # exact_length.v)
    \/ (min_length.some /\ word_length < min_length.v)

\* The length conditions that make the loop continue.
LengthExcluded(word_length, max_length, exact_length, min_length) ==
    \/ (max_length.some /\ word_length > max_length.v)
    \/ (exact_length.some /\ word_length # exact_length.v)
    \/ (min_length.some /\ word_length < min_length.v)

Blacklisted(bl, word) ==
    bl # {} /\ \E i \in DOMAIN word : word[i] \in bl

\* One iteration of the loop over the lines: what it appends.
FilterWord(word, max_length, exact_length, min_length, bl) ==
    IF LengthExcluded(Len(word), max_length, exact_length, min_length) THEN <<>>
    ELSE IF Blacklisted(bl, word) THEN <<>>
    ELSE <<word>>

extractWords(file, max_length, exact_length, min_length, conditions, output) ==
    LET bl == BuildBlacklist(conditions)
        ws == [i \in DOMAIN file.lines |-> strip(file.lines[i])]
        per == [i \in DOMAIN ws |->
                   FilterWord(ws[i], max_length, exact_length, min_length, bl)]
    IN /\ op' = "extractWords"
       /\ args' = [file |-> file, max_length |-> max_length,
                   exact_length |-> exact_length, min_length |-> min_length,
                   conditions |-> conditions, output |-> output]
       /\ blacklist' = bl
       /\ runs' = runs + 1
       /\ IF OpenSource(file) # "ok"
          THEN /\ words' = <<>>
               /\ chunks' = <<>>
               /\ generated' = <<>>
               /\ message' = Handler(OpenSource(file))
               /\ out' = out
          ELSE /\ words' = ws
               /\ chunks' = per
               /\ generated' = Flatten(per)
               /\ SaveResults(output, TRUE, Flatten(per))

\* ------------------------------------------------ generateCombinatory
Latin1Lower ==
    <<"U+00E0", "U+00E1", "U+00E2", "U+00E3", "U+00E4", "U+00E5", "U+00E6", "U+00E7", "U+00E8", "U+00E9", "U+00EA", "U+00EB", "U+00EC", "U+00ED", "U+00EE", "U+00EF", "U+00F0", "U+00F1", "U+00F2", "U+00F3", "U+00F4", "U+00F5", "U+00F6", "U+00F8", "U+00F9", "U+00FA", "U+00FB", "U+00FC", "U+00FD", "U+00FE">>

Latin1Upper ==
    <<"U+00C0", "U+00C1", "U+00C2", "U+00C3", "U+00C4", "U+00C5", "U+00C6", "U+00C7", "U+00C8", "U+00C9", "U+00CA", "U+00CB", "U+00CC", "U+00CD", "U+00CE", "U+00CF", "U+00D0", "U+00D1", "U+00D2", "U+00D3", "U+00D4", "U+00D5", "U+00D6", "U+00D8", "U+00D9", "U+00DA", "U+00DB", "U+00DC", "U+00DD", "U+00DE">>

LowerLetters == Lowercase \o Latin1Lower
UpperLetters == Uppercase \o Latin1Upper

IndexOf(s, c) == CHOOSE i \in DOMAIN s : s[i] = c

\* str.lower() and str.upper() of one character of a latin-1 text.  The
\* sharp s has a two-letter upper case; the upper cases of the micro sign
\* and of y with diaeresis lie outside latin-1.
lower(char) ==
    IF char \in Range(UpperLetters)
    THEN <<LowerLetters[IndexOf(UpperLetters, char)]>>
    ELSE <<char>>

upper(char) ==
    IF char \in Range(LowerLetters)
    THEN <<UpperLetters[IndexOf(LowerLetters, char)]>>
    ELSE IF char = "U+00DF" THEN <<"S", "S">>
    ELSE IF char = "U+00FF" THEN <<"U+0178">>
    ELSE IF char = "U+00B5" THEN <<"U+039C">>
    ELSE <<char>>

\* set(''.join(c) for c in itertools.product(*[(char.lower(), char.upper())
\* for char in word]))
RECURSIVE CaseCombos(_)
CaseCombos(word) ==
    IF word = <<>> THEN {<<>>}
    ELSE {h \o t : h \in {lower(Head(word)), upper(Head(word))},
                   t \in CaseCombos(Tail(word))}

substitutions ==
    ("a" :> <<"4", "@">>) @@ ("b" :> <<"8">>) @@ ("c" :> <<"<", "(">>) @@
    ("e" :> <<"3">>) @@ ("g" :> <<"6", "9">>) @@ ("i" :> <<"1", "!">>) @@
    ("l" :> <<"1", "|">>) @@ ("o" :> <<"0">>) @@ ("s" :> <<"5", "$">>) @@
    ("t" :> <<"7", "+">>) @@ ("z" :> <<"2">>)

\* combo.replace(char, sub) for one-character char and sub.
replace(combo, char, sub) ==
    [i \in DOMAIN combo |-> IF combo[i] = char THEN sub ELSE combo[i]]

\* set(combo): the set of the characters of the str combo, each a str of
\* length one.
SetOfStr(combo) == {<<combo[i]>> : i \in DOMAIN combo}

\* The body of the loop over combos: substitutions_combos when it ends.
SubstitutionsCombos(combo) ==
    SetOfStr(combo) \cup
    UNION {{replace(combo, char, substitutions[char][k]) :
               k \in DOMAIN substitutions[char]} :
           char \in {c \in DOMAIN substitutions : c \in Range(combo)}}

\* One iteration of the loop over the lines: the strings it adds.
CombineWord(word, extended) ==
    LET combos == CaseCombos(word)
    IN combos \cup
       (IF extended THEN UNION {SubstitutionsCombos(combo) : combo \in combos}
        ELSE {})

\* The elements of a set in the order an iteration happens to take.
RECURSIVE SetOrder(_)
SetOrder(S) ==
    IF S = {} THEN <<>>
    ELSE LET x == CHOOSE x \in S : TRUE
         IN <<x>> \o SetOrder(S \ {x})

generateCombinatory(file, output, extended) ==
    LET ws == [i \in DOMAIN file.lines |-> strip(file.lines[i])]
        per == [i \in DOMAIN ws |-> CombineWord(ws[i], extended)]
        all == UNION {per[i] : i \in DOMAIN per}
    IN /\ op' = "generateCombinatory"
       /\ args' = [file |-> file, output |-> output, extended |-> extended]
       /\ blacklist' = {}
       /\ runs' = runs + 1
       /\ IF OpenSource(file) # "ok"
          THEN /\ words' = <<>>
               /\ chunks' = <<>>
               /\ generated' = {}
               /\ message' = Handler(OpenSource(file))
               /\ out' = out
          ELSE /\ words' = ws
               /\ chunks' = per
               /\ generated' = all
               /\ SaveResults(output, FALSE, SetOrder(all))

\* ------------------------------------------------------------- inputs
RECURSIVE SeqsUpTo(_, _)
SeqsUpTo(S, n) ==
    IF n = 0 THEN {<<>>}
    ELSE LET shorter == SeqsUpTo(S, n - 1)
         IN shorter \cup {Append(s, x) : s \in {t \in shorter : Len(t) = n - 1}, x \in S}

Files(lines) == {SourceFile(ls) : ls \in SeqsUpTo(lines, MaxLines)} \cup {MissingFile}

PadLines ==
    { <<LF>>, <<"a", LF>>, <<"a", "b", LF>>, <<" ", "a", "b", " ", LF>>,
      <<"a", "b", "c", "d", LF>>, <<"b">> }

PadCharsets ==
    DOMAIN predefined_charsets \cup {<<"0", "1">>, <<"a", "a">>, <<>>}

PadCount(line, max_length, charset) ==
    IF Len(strip(line)) < max_length
    THEN Pow(Len(parse_charset(charset)), max_length - Len(strip(line)))
    ELSE 1

FilterLines ==
    { <<LF>>, <<"A", "b", "1", LF>>, <<"p", "a", "5", "5", "!", LF>>,
      <<"p", "a", "s", "s", "w", "o", "r", "d", LF>>,
      <<" ", "a", "b", " ", LF>>, <<"a", "?", "\t", LF>> }

FilterConditions ==
    { <<>>, <<"?", "d", "!">>, <<"!", "?", "d">>, <<"?", "d">>,
      <<"d", "?", "d">>, <<"?", "s">>, <<"?", "x">>, <<"a", "b">>,
      <<"?", "a">>, <<"?", "l", "?", "u">>, <<"?">> }

\* The caller gives exactly one of the three length options.
LengthOptions ==
    {<<Some(n), None, None>> : n \in 0..MaxN} \cup
    {<<None, Some(n), None>> : n \in 0..MaxN} \cup
    {<<None, None, Some(n)>> : n \in 0..MaxN}

CaseLines ==
    { <<LF>>, <<"g", "o", LF>>, <<" ", "G", "o", LF>>, <<"a", "1", LF>>,
      <<"U+00DF", LF>>, <<"U+00FF", LF>>, <<"o", "o">> }

IOFiles ==
    { MissingFile, UnreadableFile, SourceFile(<<>>), SourceFile(<<<<"a", LF>>>>) }

Outputs == {"ok", "ENOENT", "EACCES"}

\* ------------------------------------------------------ specifications
Init ==
    /\ op = "none"
    /\ args = <<>>
    /\ blacklist = {}
    /\ words = <<>>
    /\ chunks = <<>>
    /\ generated = <<>>
    /\ out \in {<<>>, <<Payload(TRUE, <<<<"o", "l", "d">>>>)>>}
    /\ message = ""
    /\ runs = 0

\* One invocation of generateDictionary.
NextPad ==
    /\ runs = 0
    /\ \E file \in Files(PadLines), max_length \in 0..MaxLen,
          charset \in PadCharsets, prepend \in BOOLEAN :
          /\ \A i \in DOMAIN file.lines :
                PadCount(file.lines[i], max_length, charset) <= MaxEmit
          /\ generateDictionary(file, max_length, charset, "ok", prepend)

SpecPad == Init /\ [][NextPad]_vars

\* One invocation of extractWords.
NextFilter ==
    /\ runs = 0
    /\ \E file \in Files(FilterLines), len \in LengthOptions,
          conditions \in FilterConditions :
          extractWords(file, len[1], len[2], len[3], conditions, "ok")

SpecFilter == Init /\ [][NextFilter]_vars

\* One invocation of generateCombinatory.
NextCase ==
    /\ runs = 0
    /\ \E file \in Files(CaseLines), extended \in BOOLEAN :
          generateCombinatory(file, "ok", extended)

SpecCase == Init /\ [][NextCase]_vars

\* Invocations of the three operations on one output destination.
RunExtract ==
    \E file \in IOFiles, output \in Outputs :
        /\ runs < MaxRuns
        /\ extractWords(file, Some(1), None, None, <<>>, output)

RunPad ==
    \E file \in IOFiles, output \in Outputs :
        /\ runs < MaxRuns
        /\ generateDictionary(file, 1, <<"0", "1">>, output, FALSE)

RunCase ==
    \E file \in IOFiles, output \in Outputs :
        /\ runs < MaxRuns
        /\ generateCombinatory(file, output, FALSE)

Next == RunExtract \/ RunPad \/ RunCase

Spec == Init /\ [][Next]_vars

\* ------------------------------------------------------------ claims
IsPrefix(s, t) == Len(s) <= Len(t) /\ SubSeq(t, 1, Len(s)) = s

NoRepeat(s) == Cardinality(Range(s)) = Len(s)

HasPrefix(s, w) == Len(w) <= Len(s) /\ SubSeq(s, 1, Len(w)) = w

HasSuffix(s, w) == Len(w) <= Len(s) /\ SubSeq(s, Len(s) - Len(w) + 1, Len(s)) = w

PadRan == op = "generateDictionary" /\ OpenSource(args.file) = "ok"

\* The lines the last write added to the output.
LastWritten == out[Len(out)].lines

\* C1: for every source word W (length n), target length L and resolved
\* charset C, appending or prepending: if n < L exactly |C|^(L-n) strings
\* are emitted for W, each of length L with W as prefix (append) or suffix
\* (prepend), pairwise distinct when C repeats no character; if n = L, W
\* is emitted once, unchanged; if n > L nothing is emitted for W.
C1_PadExpandPerWord ==
    PadRan =>
        LET L == args.max_length
            C == parse_charset(args.charset)
        IN /\ generated = Flatten(chunks)
           /\ \A i \in DOMAIN words :
                LET W == words[i]
                    n == Len(W)
                    emitted == chunks[i]
                IN /\ n < L =>
                        /\ Len(emitted) = Pow(Len(C), L - n)
                        /\ \A j \in DOMAIN emitted :
                              /\ Len(emitted[j]) = L
                              /\ IF args.prepend THEN HasSuffix(emitted[j], W)
                                 ELSE HasPrefix(emitted[j], W)
                        /\ NoRepeat(C) => NoRepeat(emitted)
                   /\ n = L => emitted = <<W>>
                   /\ n > L => emitted = <<>>

\* Prepend mode on a file with a word two short of L and a word of length L.
C1_Witness ==
    /\ PadRan
    /\ args.prepend
    /\ message = SavedMessage
    /\ \E i \in DOMAIN words :
          Len(words[i]) + 2 = args.max_length /\ Len(chunks[i]) >= 4
    /\ \E i \in DOMAIN words : Len(words[i]) = args.max_length

\* The j-th tuple (from 1) of the k-th Cartesian power of C in charset
\* order, the last position cycling fastest.
TupleAt(C, k, j) ==
    [p \in 1..k |-> C[(((j - 1) \div Pow(Len(C), k - p)) % Len(C)) + 1]]

\* C7: for every source word W shorter than L the padded strings come in
\* the order of the k-th Cartesian power of the charset (k = L - len(W)),
\* last pad position cycling fastest, in both modes; the strings of
\* different source words come in source order; "ab", L = 3, charset "01",
\* append mode gives "ab0" then "ab1".
C7_PadExpandOrder ==
    PadRan =>
        LET L == args.max_length
            C == parse_charset(args.charset)
        IN /\ \A i \in DOMAIN words :
                LET W == words[i]
                    k == L - Len(W)
                IN Len(W) < L =>
                     /\ Len(chunks[i]) = Pow(Len(C), k)
                     /\ \A j \in DOMAIN chunks[i] :
                           chunks[i][j] = IF args.prepend
                                          THEN TupleAt(C, k, j) \o W
                                          ELSE W \o TupleAt(C, k, j)
           /\ generated = Flatten(chunks)
           /\ (message = SavedMessage /\ generated # <<>>) =>
                 LastWritten = generated
           /\ ( /\ args.file.lines = <<<<"a", "b", LF>>>>
                /\ L = 3
                /\ args.charset = <<"0", "1">>
                /\ ~args.prepend ) =>
                 generated = <<<<"a", "b", "0">>, <<"a", "b", "1">>>>

\* Two pad positions over a charset of several characters, two source words.
C7_Witness ==
    /\ PadRan
    /\ message = SavedMessage
    /\ Len(words) = 2
    /\ Len(parse_charset(args.charset)) >= 2
    /\ \E i \in DOMAIN words :
          Len(words[i]) + 2 = args.max_length /\ Len(chunks[i]) >= 4
    /\ \A i \in DOMAIN words : chunks[i] # <<>>

\* C10: every named charset table (?l ?u ?d ?h ?H ?s ?a) repeats no
\* character, so for a named code and a source word W shorter than L the
\* strings emitted for W are pairwise distinct: exactly |C|^(L-len(W))
\* different strings, C the set of the table's characters.
C10_NamedCharsetsDistinct ==
    ( /\ PadRan
      /\ args.charset \in DOMAIN predefined_charsets
      /\ \E i \in DOMAIN words : Len(words[i]) < args.max_length ) =>
        LET L == args.max_length
            C == parse_charset(args.charset)
        IN /\ NoRepeat(C)
           /\ \A i \in DOMAIN words :
                 Len(words[i]) < L =>
                    /\ NoRepeat(chunks[i])
                    /\ Cardinality(Range(chunks[i])) =
                          Pow(Cardinality(Range(C)), L - Len(words[i]))

FilterRan == op = "extractWords" /\ OpenSource(args.file) = "ok"

Literals == {<<"!">>}

\* C3: a blacklist spec made of the code ?d and literal characters other
\* than the marker, code first or literal first, builds the blacklist of
\* the ten digits plus those literals; with ?d and the literal "!" the
\* word "pa55!" is excluded and the word "password" is kept.
C3_DigitCodeWithLiteral ==
    op = "extractWords" =>
        \A lit \in Literals :
            args.conditions \in {<<"?", "d">> \o lit, lit \o <<"?", "d">>} =>
                /\ blacklist = Range(Digits) \cup Range(lit)
                /\ lit = <<"!">> =>
                     \A i \in DOMAIN words :
                        /\ words[i] = <<"p", "a", "5", "5", "!">> =>
                              chunks[i] = <<>>
                        /\ ( /\ words[i] = <<"p", "a", "s", "s", "w", "o", "r", "d">>
                             /\ ~LengthExcluded(8, args.max_length,
                                                args.exact_length, args.min_length) ) =>
                              chunks[i] = <<words[i]>>

\* The input line with only its line terminator removed.
WithoutTerminator(line) ==
    IF line # <<>> /\ line[Len(line)] = LF
    THEN SubSeq(line, 1, Len(line) - 1)
    ELSE line

\* The input line with its leading and trailing whitespace removed.
Trimmed(line) ==
    LET inside == {i \in DOMAIN line : line[i] \notin Whitespace}
    IN IF inside = {} THEN <<>>
       ELSE SubSeq(line, CHOOSE i \in inside : \A j \in inside : i <= j,
                         CHOOSE i \in inside : \A j \in inside : j <= i)

\* The length constraint the caller gave, on a word of length n.
LengthSatisfied(n) ==
    /\ args.max_length.some => n <= args.max_length.v
    /\ args.exact_length.some => n = args.exact_length.v
    /\ args.min_length.some => n >= args.min_length.v

Passes(w) ==
    /\ LengthSatisfied(Len(w))
    /\ blacklist = {} \/ Range(w) \cap blacklist = {}

\* C5 as stated: the words written are exactly, in source order and
\* unchanged, the source words that satisfy the length constraint and hold
\* no blacklisted character, a source word being the input line with only
\* its line terminator removed.
C5_FilterTerminatorOnly ==
    FilterRan =>
        generated =
            SelectSeq([i \in DOMAIN args.file.lines |->
                          WithoutTerminator(args.file.lines[i])], Passes)

\* C5 amended: the same with a source word being the input line with all
\* its leading and trailing whitespace removed (the line terminator
\* included); when the run succeeds and at least one word passes, the
\* lines appended to the output are exactly these words.
C5_FilterTrimmed ==
    FilterRan =>
        /\ generated =
              SelectSeq([i \in DOMAIN args.file.lines |->
                            Trimmed(args.file.lines[i])], Passes)
        /\ \A i \in DOMAIN generated :
              /\ Range(generated[i]) \cap blacklist = {}
              /\ LengthSatisfied(Len(generated[i]))
        /\ \A i \in DOMAIN words :
              (chunks[i] = <<>> /\ ~Blacklisted(blacklist, words[i])) =>
                  ~LengthSatisfied(Len(words[i]))
        /\ (message = SavedMessage /\ generated # <<>>) =>
              LastWritten = generated

\* A line with blanks around its word is kept with the blanks removed,
\* and another line is dropped for a blacklisted character.
C5_Witness ==
    /\ FilterRan
    /\ message = SavedMessage
    /\ blacklist # {}
    /\ \E i \in DOMAIN words :
          /\ words[i] # WithoutTerminator(args.file.lines[i])
          /\ chunks[i] = <<words[i]>>
    /\ \E i \in DOMAIN words :
          /\ LengthSatisfied(Len(words[i]))
          /\ chunks[i] = <<>>

CaseRan == op = "generateCombinatory" /\ OpenSource(args.file) = "ok"

\* Every case variant V of W and, for every substitutable letter c in V and
\* every replacement r of c, V with all occurrences of c replaced by r.
ExtendedVariants(W) ==
    CaseCombos(W) \cup
    UNION {{[i \in DOMAIN vc[1] |->
                IF vc[1][i] = vc[2] THEN substitutions[vc[2]][k] ELSE vc[1][i]] :
             k \in DOMAIN substitutions[vc[2]]} :
           vc \in {t \in CaseCombos(W) \X (DOMAIN substitutions) :
                      t[2] \in Range(t[1])}}

\* C2: in extended mode the set of strings written is exactly every case
\* variant of every source word plus, for every case variant V, every
\* substitutable lowercase letter c in V and every replacement r of c, V
\* with all occurrences of c replaced by r, and no other string; for the
\* source word "go" it is {go, gO, Go, GO, 60, 90, g0, 6O, 9O, G0}.
C2_ExtendedSet ==
    (CaseRan /\ args.extended) =>
        /\ generated = UNION {ExtendedVariants(words[i]) : i \in DOMAIN words}
        /\ (message = SavedMessage /\ generated # {}) =>
              Range(LastWritten) = generated
        /\ words = <<<<"g", "o">>>> =>
              generated = { <<"g", "o">>, <<"g", "O">>, <<"G", "o">>, <<"G", "O">>,
                            <<"6", "0">>, <<"9", "0">>, <<"g", "0">>, <<"6", "O">>,
                            <<"9", "O">>, <<"G", "0">> }

\* str.casefold() of one character of the texts generateCombinatory makes.
casefold_char(char) ==
    IF char = "U+00DF" THEN <<"s", "s">>
    ELSE IF char \in {"U+00B5", "U+039C"} THEN <<"U+03BC">>
    ELSE IF char = "U+0178" THEN <<"U+00FF">>
    ELSE lower(char)

casefold(s) == Flatten([i \in DOMAIN s |-> casefold_char(s[i])])

\* C6: without extended mode the set emitted for a source word W has at
\* most 2^len(W) elements, each of the length of W and equal to W under
\* case folding; for "go" it is {"go", "gO", "Go", "GO"}.
C6_CaseVariants ==
    (CaseRan /\ ~args.extended) =>
        \A i \in DOMAIN words :
            LET W == words[i]
            IN /\ Cardinality(chunks[i]) <= Pow(2, Len(W))
               /\ \A v \in chunks[i] :
                     /\ Len(v) = Len(W)
                     /\ casefold(v) = casefold(W)
               /\ W = <<"g", "o">> =>
                     chunks[i] = { <<"g", "o">>, <<"g", "O">>,
                                   <<"G", "o">>, <<"G", "O">> }

\* C4: each operation reports "file not found" exactly when the source
\* file is missing and reports every other I/O failure, a failure to open
\* or write the output included, with the generic message.
C4_FailureMessages ==
    op # "none" =>
        /\ message = FileNotFoundMessage <=> args.file.state = "missing"
        /\ ( \/ args.file.state = "denied"
             \/ (args.file.state = "ok" /\ args.output # "ok") ) =>
              message = ErrorMessage
        /\ message \in {FileNotFoundMessage, ErrorMessage, SavedMessage}

\* C8: over any sequence of invocations on one output destination,
\* succeeding or failing, what the output held before an invocation is a
\* prefix of what it holds after it.
C8_OutputOnlyGrows == [][IsPrefix(out, out')]_vars

\* Earlier content, then a successful invocation, then a failed one.
C8_Witness ==
    /\ runs >= 2
    /\ Len(out) >= 2
    /\ message \in {FileNotFoundMessage, ErrorMessage}

\* C9: a successful run that emits no word at all leaves the content of
\* the output unchanged.
C9_EmptyRunWritesNothing ==
    [][ ( /\ message' = SavedMessage
          /\ IF op' = "generateCombinatory" THEN generated' = {}
             ELSE generated' = <<>> )
        => out' = out ]_vars

====
